---- MODULE Spec2Model ----
(***************************************************************************)
(* Model of the skill-governance commands of agent-base                    *)
(* (src/agent/cli/skill_commands.py) and of the layered configuration      *)
(* resolver (src/agent/config.py together with the file layer that the     *)
(* integration tests exercise).                                            *)
(*                                                                         *)
(* A skill name is a sequence of one-character strings, so that            *)
(* normalize_skill_name is computed character by character.                *)
(***************************************************************************)
EXTENDS Integers, Sequences, FiniteSets, TLC

\* ------------------------------------------------------------------------
\* Bounds of the model
\* ------------------------------------------------------------------------
MaxPlugins == 4

\* longest raw name the canonicalizer is exercised with
MaxRawLen == 3

\* number of sessions that end (calls of auto_save_session)
MaxSessions == 4

\* number of prompts executed (calls of execute_with_visualization)
MaxExecutions == 3

\* ------------------------------------------------------------------------
\* NameCanonicalizer (agent.skills.security.normalize_skill_name)
\* ------------------------------------------------------------------------
MaxNameLen == 64

Null == "null"

Invalid == <<>>

Lower(c) ==
    CASE c = "A" -> "a"
      [] c = "B" -> "b"
      [] OTHER -> c

IsSeparator(c) == c \in {" ", "_"}

IsSafeChar(c) == c \in {"a", "b", "-"}

RECURSIVE DropSeparators(_)
DropSeparators(s) ==
    IF s = <<>> THEN <<>>
    ELSE IF IsSeparator(Head(s)) THEN DropSeparators(Tail(s))
    ELSE s

RECURSIVE CollapseSeparators(_)
CollapseSeparators(s) ==
    IF s = <<>> THEN <<>>
    ELSE IF IsSeparator(Head(s))
         THEN <<"-">> \o CollapseSeparators(DropSeparators(Tail(s)))
         ELSE <<Head(s)>> \o CollapseSeparators(Tail(s))

LowerAll(s) == [i \in 1..Len(s) |-> Lower(s[i])]

StripUnsafe(s) == SelectSeq(s, IsSafeChar)

TrimLen(s) == IF Len(s) > MaxNameLen THEN SubSeq(s, 1, MaxNameLen) ELSE s

\* the canonicalizer without the lowercasing step
CanonicalizeKeepCase(raw) == TrimLen(StripUnsafe(CollapseSeparators(raw)))

\* lowercase; collapse whitespace/underscores to one hyphen; strip unsafe
\* characters; trim to the maximum length.  The empty result is Invalid
\* (InvalidSkillName).
Canonicalize(raw) == TrimLen(StripUnsafe(CollapseSeparators(LowerAll(raw))))

\* ------------------------------------------------------------------------
\* The world the commands run in
\* ------------------------------------------------------------------------
\* names a user may type on the command line
NameA == <<"a">>
NameUpperA == <<"A">>
NameAB == <<"a", "-", "b">>
NameAUnderB == <<"A", "_", "b">>
NameB == <<"b">>
NameBad == <<"!", "/">>
NameTraversal == <<".", ".", "/", "a">>

RawNames == {NameUpperA, NameAB, NameAUnderB, NameBad}

\* every name that occurs in the model, typed or stored
SkillNames == {NameA, NameUpperA, NameAB, NameAUnderB, NameB, NameBad, NameTraversal}

\* Canonicalize, computed once for the names of the model and their results
CanonicalForm ==
    [n \in SkillNames \cup {Canonicalize(m) : m \in SkillNames} |-> Canonicalize(n)]

\* normalize_skill_name(raw): the canonical form of raw, Invalid if it has none
normalize_skill_name(raw) == CanonicalForm[raw]

\* an optional name (Python: str | None)
None == [some |-> FALSE]

Some(v) == [some |-> TRUE, v |-> v]

NameOverrides == {None, Some(NameA), Some(NameBad), Some(NameTraversal)}

CanonNames == {normalize_skill_name(r) : r \in RawNames} \ {Invalid}

\* remotes: a single-skill repository, a monorepo with two units, and a
\* monorepo whose two units have the same canonical name
GitUrls == {"u1", "u2", "u3"}

Branches == {"main", "dev"}

RepoUnits(git_url) ==
    IF git_url = "u1" THEN <<NameUpperA>>
    ELSE IF git_url = "u2" THEN <<NameAUnderB, NameA>>
    ELSE <<NameAB, NameAUnderB>>

\* the branches a remote has; cloning another branch fails
RepoBranches(git_url) == {"main"}

ManagedRoot == "managed"

ManagedPath(canonical) == <<ManagedRoot, canonical>>

Paths == {ManagedPath(c) : c \in CanonNames}

\* bundled skill directories
AutoDir == "auto"
CustomDir == "custom"
EmptyDir == "empty"
StaleDir == "stale"

DirExists(d) == d \in {AutoDir, CustomDir, EmptyDir}

\* SkillLoader.scan_skill_directory: the skill directories below d, in scan
\* order; a directory without skills, or a missing one, yields <<>>
scan_skill_directory(d) ==
    IF d = AutoDir THEN <<NameAB, NameB>>
    ELSE IF d = CustomDir THEN <<NameB>>
    ELSE <<>>

\* ------------------------------------------------------------------------
\* Configuration layers
\* ------------------------------------------------------------------------
EnvVars == {"LLM_PROVIDER", "OPENAI_API_KEY", "OPENAI_MODEL", "ENABLE_OTEL"}

\* the variables AgentConfig.from_env reads for the provider it validates
ProviderEnvVars == {"LLM_PROVIDER", "OPENAI_API_KEY", "ANTHROPIC_API_KEY",
                    "AZURE_PROJECT_ENDPOINT", "AZURE_MODEL_DEPLOYMENT"}

AllEnvVars == EnvVars \cup ProviderEnvVars \cup {"ANTHROPIC_MODEL"}

\* values of the provider variables: the three supported providers and one
\* that validate does not know; a key may be set to the empty string
ProviderEnvValues(var) ==
    CASE var = "LLM_PROVIDER" -> {"openai", "anthropic", "azure_ai_foundry", "local"}
      [] var = "OPENAI_API_KEY" -> {"env-key", ""}
      [] var = "ANTHROPIC_API_KEY" -> {"sk-ant"}
      [] var = "AZURE_PROJECT_ENDPOINT" -> {"https://project"}
      [] var = "AZURE_MODEL_DEPLOYMENT" -> {"deployment"}

EnvValues(var) ==
    CASE var = "LLM_PROVIDER" -> {"anthropic"}
      [] var = "OPENAI_API_KEY" -> {"env-key"}
      [] var = "OPENAI_MODEL" -> {"gpt-4o"}
      [] var = "ENABLE_OTEL" -> {"true", "false"}

EmptyEnv == [var \in AllEnvVars |-> None]

\* os.getenv(var, default)
getenv(e, var, default) == IF e[var].some THEN Some(e[var].v) ELSE default

\* from_env with OPENAI_MODEL never read
from_env_model_default_only(e) ==
    [llm_provider |-> getenv(e, "LLM_PROVIDER", Some("openai")),
     openai_api_key |-> getenv(e, "OPENAI_API_KEY", None),
     openai_model |-> Some("gpt-5-mini"),
     anthropic_api_key |-> getenv(e, "ANTHROPIC_API_KEY", None),
     anthropic_model |-> getenv(e, "ANTHROPIC_MODEL", Some("claude-sonnet-4-5-20250929")),
     azure_project_endpoint |-> getenv(e, "AZURE_PROJECT_ENDPOINT", None),
     azure_model_deployment |-> getenv(e, "AZURE_MODEL_DEPLOYMENT", None)]

\* from_env with OPENAI_API_KEY never read
from_env_without_api_key(e) ==
    [llm_provider |-> getenv(e, "LLM_PROVIDER", Some("openai")),
     openai_api_key |-> None,
     openai_model |-> getenv(e, "OPENAI_MODEL", Some("gpt-5-mini")),
     anthropic_api_key |-> getenv(e, "ANTHROPIC_API_KEY", None),
     anthropic_model |-> getenv(e, "ANTHROPIC_MODEL", Some("claude-sonnet-4-5-20250929")),
     azure_project_endpoint |-> getenv(e, "AZURE_PROJECT_ENDPOINT", None),
     azure_model_deployment |-> getenv(e, "AZURE_MODEL_DEPLOYMENT", None)]

\* AgentConfig.from_env: every field from its environment variable, else
\* the default written in the call
from_env(e) ==
    [llm_provider |-> getenv(e, "LLM_PROVIDER", Some("openai")),
     openai_api_key |-> getenv(e, "OPENAI_API_KEY", None),
     openai_model |-> getenv(e, "OPENAI_MODEL", Some("gpt-5-mini")),
     anthropic_api_key |-> getenv(e, "ANTHROPIC_API_KEY", None),
     anthropic_model |-> getenv(e, "ANTHROPIC_MODEL", Some("claude-sonnet-4-5-20250929")),
     azure_project_endpoint |-> getenv(e, "AZURE_PROJECT_ENDPOINT", None),
     azure_model_deployment |-> getenv(e, "AZURE_MODEL_DEPLOYMENT", None)]

\* the fields of the settings file that the resolver reads; None is null
FileFields == {"openai_api_key", "openai_model", "telemetry_enabled"}

FileValues(field) ==
    CASE field = "openai_api_key" -> {"file-key"}
      [] field = "openai_model" -> {"gpt-4.1", "gpt-5-mini"}
      [] field = "telemetry_enabled" -> {TRUE, FALSE}

EnabledLists == {<<>>, <<"openai">>, <<"local", "openai">>}

\* the keys of the settings document that the schema knows
KnownKeys == {"enabled", "openai_api_key", "openai_model", "telemetry_enabled"}

\* a key written by a newer version of the program, and its value
FutureKey == "future_field"

FutureValue == "future-value"

\* no unknown field
NoExtra == [k \in {} |-> FutureValue]

\* get_default_config(): no provider enabled, nothing set
get_default_config ==
    [enabled |-> <<>>, openai_api_key |-> None, openai_model |-> None,
     telemetry_enabled |-> None, extra |-> NoExtra]

\* a file whose text is a proper prefix of the text of document doc: not a
\* well-formed document
Truncated(doc) == [truncated |-> doc]

IsMalformed(content) == "truncated" \in DOMAIN content

\* load_config that also raises when there is no file
load_raises_when_missing(file) == ~file.some \/ IsMalformed(file.v)

\* load_config raises ConfigurationError: the file exists and is malformed
load_raises(file) == file.some /\ IsMalformed(file.v)

\* load_config that keeps only the fields of the schema
load_config_known_only(file) ==
    IF file.some
    THEN [enabled |-> file.v.enabled,
          openai_api_key |-> file.v.openai_api_key,
          openai_model |-> file.v.openai_model,
          telemetry_enabled |-> file.v.telemetry_enabled,
          extra |-> NoExtra]
    ELSE get_default_config

\* load_config(path): the document parsed into the settings object, the
\* fields the schema does not know kept aside; a missing file yields the
\* defaults
load_config(file) ==
    IF file.some
    THEN [enabled |-> file.v.enabled,
          openai_api_key |-> file.v.openai_api_key,
          openai_model |-> file.v.openai_model,
          telemetry_enabled |-> file.v.telemetry_enabled,
          extra |-> [k \in DOMAIN file.v \ KnownKeys |-> file.v[k]]]
    ELSE get_default_config

\* save_config(settings, path), the document written: every field of the
\* schema and every unknown field, as one whole document
save_config(settings) ==
    [k \in KnownKeys \cup DOMAIN settings.extra |->
        IF k \in KnownKeys THEN settings[k] ELSE settings.extra[k]]

\* ENABLE_OTEL is a string in the environment
ParseBool(s) == s = "true"

\* first non-absent value: file, then environment, then default
Fallback(file_value, env_value) == IF file_value.some THEN file_value ELSE env_value

\* from_combined that lets LLM_PROVIDER of the environment choose the provider
\* before the file's enabled list
from_combined_env_provider_first(file, e) ==
    LET settings == load_config(file)
        fromEnv == from_env(e)
        provider == IF e["LLM_PROVIDER"].some THEN e["LLM_PROVIDER"]
                    ELSE IF settings.enabled # <<>> THEN Some(settings.enabled[1])
                    ELSE None
    IN  [llm_provider |-> provider,
         enabled_providers |-> settings.enabled,
         openai_api_key |-> Fallback(settings.openai_api_key, fromEnv.openai_api_key),
         openai_model |-> Fallback(settings.openai_model, fromEnv.openai_model),
         enable_otel |-> Fallback(settings.telemetry_enabled,
                                  IF e["ENABLE_OTEL"].some
                                  THEN Some(ParseBool(e["ENABLE_OTEL"].v))
                                  ELSE Some(FALSE)),
         config_source |-> "combined"]

\* AgentConfig.from_combined(path): file over environment over defaults
from_combined(file, e) ==
    LET settings == load_config(file)
        fromEnv == from_env(e)
        provider == IF settings.enabled # <<>> THEN Some(settings.enabled[1])
                    ELSE e["LLM_PROVIDER"]
    IN  [llm_provider |-> provider,
         enabled_providers |-> settings.enabled,
         openai_api_key |-> Fallback(settings.openai_api_key, fromEnv.openai_api_key),
         openai_model |-> Fallback(settings.openai_model, fromEnv.openai_model),
         enable_otel |-> Fallback(settings.telemetry_enabled,
                                  IF e["ENABLE_OTEL"].some
                                  THEN Some(ParseBool(e["ENABLE_OTEL"].v))
                                  ELSE Some(FALSE)),
         config_source |-> "combined"]

CliFields == {"llm_provider", "openai_model"}

CliValues(field) ==
    CASE field = "llm_provider" -> {"anthropic"}
      [] field = "openai_model" -> {"cli-model"}

NoCli == [field \in CliFields |-> None]

\* ConfigResolver.resolve: the CLI arguments are applied last, at the call site
resolve(overrides, file, e) ==
    LET combined == from_combined(file, e)
        config == [combined EXCEPT
                     !.llm_provider = Fallback(overrides["llm_provider"], @),
                     !.openai_model = Fallback(overrides["openai_model"], @)]
    IN  IF config.llm_provider.some
        THEN [status |-> "ok", config |-> config]
        ELSE [status |-> "ConfigurationError"]

\* Python's "not value" for an optional string: None or the empty string
Falsy(value) == ~value.some \/ value.v = ""

\* validate with the check of the model deployment left out
validate_without_deployment(config) ==
    IF config.llm_provider = Some("openai")
    THEN IF Falsy(config.openai_api_key) THEN "ValueError" ELSE "ok"
    ELSE IF config.llm_provider = Some("anthropic")
    THEN IF Falsy(config.anthropic_api_key) THEN "ValueError" ELSE "ok"
    ELSE IF config.llm_provider = Some("azure_ai_foundry")
    THEN IF Falsy(config.azure_project_endpoint) THEN "ValueError" ELSE "ok"
    ELSE "ValueError"

\* AgentConfig.validate: "ok" when it returns, "ValueError" when it raises
validate(config) ==
    IF config.llm_provider = Some("openai")
    THEN IF Falsy(config.openai_api_key) THEN "ValueError" ELSE "ok"
    ELSE IF config.llm_provider = Some("anthropic")
    THEN IF Falsy(config.anthropic_api_key) THEN "ValueError" ELSE "ok"
    ELSE IF config.llm_provider = Some("azure_ai_foundry")
    THEN IF Falsy(config.azure_project_endpoint) THEN "ValueError"
         ELSE IF Falsy(config.azure_model_deployment) THEN "ValueError"
         ELSE "ok"
    ELSE "ValueError"

NotResolved == [status |-> "none"]

\* ------------------------------------------------------------------------
\* State
\* ------------------------------------------------------------------------
VARIABLES
    settingsFile,   \* the persisted settings document (skills table)
    disk,           \* the managed directories that exist on disk
    pc,             \* position of the command in flight, "idle" if none
    op,             \* locals of the command in flight
    result,         \* outcome of the last command
    cfgFile,        \* the persisted settings document (provider and telemetry tables)
    env,            \* the environment variables
    cli,            \* the command-line overrides of the current run
    effective,      \* the configuration resolved for the current run
    tmpFile,        \* the temporary file that save_config writes before the rename
    threads,        \* the names of the sessions ThreadPersistence has saved
    lastSession,    \* the content of the marker file ~/.agent/last_session
    session,        \* the call of auto_save_session in flight, and the clock
    executions      \* the calls of execute_with_visualization, oldest first

skillVars == <<settingsFile, disk, pc, op, result>>

cfgVars == <<cfgFile, env, cli, effective, tmpFile>>

cliVars == <<threads, lastSession, session, executions>>

vars == <<settingsFile, disk, pc, op, result, cfgFile, env, cli, effective, tmpFile,
          threads, lastSession, session, executions>>

\* PluginSkillSource
PluginSkillSource(name, git_url, branch, enabled, installed_path) ==
    [name |-> name, git_url |-> git_url, branch |-> branch,
     enabled |-> enabled, installed_path |-> installed_path]

NoOp == [cmd |-> "none"]

\* no call of auto_save_session in flight, none made yet
NoSession == [pc |-> "idle", now |-> 0, message_count |-> 0, session_name |-> 0,
              outcome |-> "none"]

Outcome(cmd, status, calls) == [cmd |-> cmd, status |-> status, calls |-> calls]

\* the canonical names on record, in list order
PluginCanon(plugins) == [i \in 1..Len(plugins) |-> normalize_skill_name(plugins[i].name)]

SeqRange(s) == {s[i] : i \in 1..Len(s)}

\* next((p for p in plugins if normalize_skill_name(p.name) == canonical), None):
\* index of the first match, 0 if there is none
FindPlugin(plugins, canonical) ==
    IF \E i \in 1..Len(plugins) : normalize_skill_name(plugins[i].name) = canonical
    THEN CHOOSE i \in 1..Len(plugins) :
            /\ normalize_skill_name(plugins[i].name) = canonical
            /\ \A j \in 1..(i - 1) : normalize_skill_name(plugins[j].name) # canonical
    ELSE 0

\* settings documents the commands may start from: plugin names pairwise
\* distinct by canonical form, a hand-edited name and a stale bundled
\* directory included
InitDocuments ==
    { [bundled_dir |-> Null, disabled_bundled |-> <<>>, plugins |-> <<>>],
      [bundled_dir |-> StaleDir, disabled_bundled |-> <<>>,
       plugins |-> <<PluginSkillSource(NameUpperA, "u1", "main", FALSE, ManagedPath(NameA))>>],
      [bundled_dir |-> CustomDir, disabled_bundled |-> <<>>,
       plugins |-> <<PluginSkillSource(NameA, "u2", "main", TRUE, ManagedPath(NameA))>>] }

Init ==
    /\ settingsFile \in InitDocuments
    /\ disk = {settingsFile.plugins[i].installed_path : i \in 1..Len(settingsFile.plugins)}
    /\ pc = "idle"
    /\ op = NoOp
    /\ result = Outcome("none", "ok", <<>>)
    /\ cfgFile = None
    /\ env = EmptyEnv
    /\ cli = NoCli
    /\ effective = NotResolved
    /\ tmpFile = None
    /\ threads = {}
    /\ lastSession = None
    /\ session = NoSession
    /\ executions = <<>>

\* ------------------------------------------------------------------------
\* SkillManager (agent.skills.manager)
\* ------------------------------------------------------------------------
\* the raw names of the units install discovers: the override replaces the
\* name of a single-skill clone
InstallNames(git_url, name) ==
    IF name.some THEN <<name.v>> ELSE RepoUnits(git_url)

\* install raises: unknown branch, AmbiguousNameOverride, InvalidSkillName,
\* two units of one canonical name (collision detection)
InstallRaises(git_url, name, branch) ==
    \/ branch \notin RepoBranches(git_url)
    \/ name.some /\ Len(RepoUnits(git_url)) > 1
    \/ \E i \in 1..Len(InstallNames(git_url, name)) :
          normalize_skill_name(InstallNames(git_url, name)[i]) = Invalid
    \/ \E i, j \in 1..Len(InstallNames(git_url, name)) :
          /\ i # j
          /\ normalize_skill_name(InstallNames(git_url, name)[i])
                = normalize_skill_name(InstallNames(git_url, name)[j])

\* install that places each unit under its raw name
ManagerInstallRawPath(git_url, name) ==
    [i \in 1..Len(InstallNames(git_url, name)) |->
        [name |-> InstallNames(git_url, name)[i],
         name_canonical |-> normalize_skill_name(InstallNames(git_url, name)[i]),
         installed_path |-> ManagedPath(InstallNames(git_url, name)[i])]]

\* SkillManager.install: one entry per discovered unit
ManagerInstall(git_url, name) ==
    [i \in 1..Len(InstallNames(git_url, name)) |->
        [name |-> InstallNames(git_url, name)[i],
         name_canonical |-> normalize_skill_name(InstallNames(git_url, name)[i]),
         installed_path |-> ManagedPath(normalize_skill_name(InstallNames(git_url, name)[i]))]]

\* ------------------------------------------------------------------------
\* install_skill
\* ------------------------------------------------------------------------
\* the loop body without the lookup of an existing entry
AddEntryAlwaysAppend(plugins, entry, git_url, branch) ==
    Append(plugins, PluginSkillSource(entry.name_canonical, git_url, branch,
                                      TRUE, entry.installed_path))

\* the loop body that replaces an existing entry by a new one at the end
AddEntryMoveToEnd(plugins, entry, git_url, branch) ==
    LET Other(p) == normalize_skill_name(p.name) # entry.name_canonical IN
    Append(SelectSeq(plugins, Other),
           PluginSkillSource(entry.name_canonical, git_url, branch,
                             TRUE, entry.installed_path))

\* the loop body that records a new unit under its raw name
AddEntryRawName(plugins, entry, git_url, branch) ==
    LET i == FindPlugin(plugins, entry.name_canonical) IN
    IF i # 0
    THEN [plugins EXCEPT ![i] = [@ EXCEPT !.git_url = git_url,
                                          !.branch = branch,
                                          !.installed_path = entry.installed_path,
                                          !.enabled = TRUE]]
    ELSE Append(plugins, PluginSkillSource(entry.name, git_url, branch,
                                           TRUE, entry.installed_path))

\* body of the loop "for entry in installed_entries"
AddEntry(plugins, entry, git_url, branch) ==
    LET i == FindPlugin(plugins, entry.name_canonical) IN
    IF i # 0
    THEN [plugins EXCEPT ![i] = [@ EXCEPT !.git_url = git_url,
                                          !.branch = branch,
                                          !.installed_path = entry.installed_path,
                                          !.enabled = TRUE]]
    ELSE Append(plugins, PluginSkillSource(entry.name_canonical, git_url, branch,
                                           TRUE, entry.installed_path))

RECURSIVE AddEntries(_, _, _, _)
AddEntries(plugins, entries, git_url, branch) ==
    IF entries = <<>> THEN plugins
    ELSE AddEntries(AddEntry(plugins, Head(entries), git_url, branch),
                    Tail(entries), git_url, branch)

\* settings = load_config(); manager = SkillManager()
InstallBegin(git_url, name, branch) ==
    /\ pc = "idle"
    /\ Len(settingsFile.plugins) + Len(InstallNames(git_url, name)) <= MaxPlugins
    /\ pc' = "install_cloning"
    /\ op' = [cmd |-> "install", settings |-> settingsFile, git_url |-> git_url,
              name |-> name, branch |-> branch, entries |-> <<>>]
    /\ result' = Outcome("install", "running", <<>>)
    /\ UNCHANGED <<settingsFile, disk>>
    /\ UNCHANGED cfgVars
    /\ UNCHANGED cliVars

\* the fetch step with a save of the first unit before the others are handled
InstallFetchSavesFirstEntry ==
    /\ pc = "install_cloning"
    /\ ~InstallRaises(op.git_url, op.name, op.branch)
    /\ LET entries == ManagerInstall(op.git_url, op.name) IN
          /\ op' = [op EXCEPT !.entries = entries]
          /\ disk' = disk \cup {entries[i].installed_path : i \in 1..Len(entries)}
          /\ settingsFile' = [settingsFile EXCEPT
                                !.plugins = AddEntry(@, entries[1], op.git_url, op.branch)]
    /\ pc' = "install_fetched"
    /\ result' = Outcome("install", "running", <<"install">>)
    /\ UNCHANGED cfgVars
    /\ UNCHANGED cliVars

\* manager.install(...) returns the entries; the clone is on disk
InstallFetch ==
    /\ pc = "install_cloning"
    /\ ~InstallRaises(op.git_url, op.name, op.branch)
    /\ LET entries == ManagerInstall(op.git_url, op.name) IN
          /\ op' = [op EXCEPT !.entries = entries]
          /\ disk' = disk \cup {entries[i].installed_path : i \in 1..Len(entries)}
    /\ pc' = "install_fetched"
    /\ result' = Outcome("install", "running", <<"install">>)
    /\ UNCHANGED settingsFile
    /\ UNCHANGED cfgVars
    /\ UNCHANGED cliVars

\* manager.install(...) raises (clone failure or usage error): except Exception
InstallFail ==
    /\ pc = "install_cloning"
    /\ pc' = "idle"
    /\ op' = NoOp
    /\ result' = Outcome("install", "error", <<"install">>)
    /\ UNCHANGED <<settingsFile, disk>>
    /\ UNCHANGED cfgVars
    /\ UNCHANGED cliVars

\* the loop over installed_entries, then save_config(settings)
InstallCommit ==
    /\ pc = "install_fetched"
    /\ settingsFile' = [op.settings EXCEPT
                          !.plugins = AddEntries(@, op.entries, op.git_url, op.branch)]
    /\ pc' = "idle"
    /\ op' = NoOp
    /\ result' = Outcome("install", "ok", <<"install">>)
    /\ UNCHANGED disk
    /\ UNCHANGED cfgVars
    /\ UNCHANGED cliVars

\* ------------------------------------------------------------------------
\* update_skill
\* ------------------------------------------------------------------------
\* update_skill without the early exit for a name that is not on record
UpdateSkillWithoutLookup(name, pull_ok) ==
    /\ pc = "idle"
    /\ LET canonical_name == normalize_skill_name(name)
       IN  result' =
             IF canonical_name = Invalid THEN Outcome("update", "error", <<>>)
             ELSE IF pull_ok /\ ManagedPath(canonical_name) \in disk
                  THEN Outcome("update", "ok", <<"update">>)
                  ELSE Outcome("update", "error", <<"update">>)
    /\ UNCHANGED <<settingsFile, disk, pc, op>>
    /\ UNCHANGED cfgVars
    /\ UNCHANGED cliVars

UpdateSkill(name, pull_ok) ==
    /\ pc = "idle"
    /\ LET canonical_name == normalize_skill_name(name)
           found == FindPlugin(settingsFile.plugins, canonical_name) # 0
       IN  result' =
             IF canonical_name = Invalid THEN Outcome("update", "error", <<>>)
             ELSE IF ~found THEN Outcome("update", "not_found", <<>>)
             ELSE IF pull_ok /\ ManagedPath(canonical_name) \in disk
                  THEN Outcome("update", "ok", <<"update">>)
                  ELSE Outcome("update", "error", <<"update">>)
    /\ UNCHANGED <<settingsFile, disk, pc, op>>
    /\ UNCHANGED cfgVars
    /\ UNCHANGED cliVars

\* ------------------------------------------------------------------------
\* remove_skill
\* ------------------------------------------------------------------------
\* [p for p in plugins if normalize_skill_name(p.name) != canonical_name]
RECURSIVE WithoutPlugin(_, _)
WithoutPlugin(plugins, canonical) ==
    IF plugins = <<>> THEN <<>>
    ELSE IF normalize_skill_name(Head(plugins).name) = canonical
         THEN WithoutPlugin(Tail(plugins), canonical)
         ELSE <<Head(plugins)>> \o WithoutPlugin(Tail(plugins), canonical)

\* remove_skill that deletes the managed copy before it asks
RemoveBeginDeleteFirst(name, keep_files, confirm) ==
    /\ pc = "idle"
    /\ LET canonical_name == normalize_skill_name(name)
           found == FindPlugin(settingsFile.plugins, canonical_name) # 0
       IN  /\ IF canonical_name = Invalid \/ ~found \/ ~confirm
              THEN /\ result' = Outcome("remove",
                                        IF canonical_name = Invalid THEN "error"
                                        ELSE IF ~found THEN "not_found"
                                        ELSE "cancelled", <<>>)
                   /\ UNCHANGED <<pc, op>>
              ELSE /\ pc' = "remove_confirmed"
                   /\ op' = [cmd |-> "remove", settings |-> settingsFile,
                             canonical_name |-> canonical_name, keep_files |-> keep_files]
                   /\ result' = Outcome("remove", "running", <<>>)
           /\ disk' = IF found /\ ~keep_files
                      THEN disk \ {ManagedPath(canonical_name)} ELSE disk
    /\ UNCHANGED settingsFile
    /\ UNCHANGED cfgVars
    /\ UNCHANGED cliVars

\* load, look the plugin up, ask for confirmation
RemoveBegin(name, keep_files, confirm) ==
    /\ pc = "idle"
    /\ LET canonical_name == normalize_skill_name(name)
           found == FindPlugin(settingsFile.plugins, canonical_name) # 0
       IN  IF canonical_name = Invalid \/ ~found \/ ~confirm
           THEN /\ result' = Outcome("remove",
                                     IF canonical_name = Invalid THEN "error"
                                     ELSE IF ~found THEN "not_found"
                                     ELSE "cancelled", <<>>)
                /\ UNCHANGED <<pc, op>>
           ELSE /\ pc' = "remove_confirmed"
                /\ op' = [cmd |-> "remove", settings |-> settingsFile,
                          canonical_name |-> canonical_name, keep_files |-> keep_files]
                /\ result' = Outcome("remove", "running", <<>>)
    /\ UNCHANGED <<settingsFile, disk>>
    /\ UNCHANGED cfgVars
    /\ UNCHANGED cliVars

\* the file step run whatever keep_files says
RemoveFilesIgnoringKeepFiles ==
    /\ pc = "remove_confirmed"
    /\ disk' = disk \ {ManagedPath(op.canonical_name)}
    /\ pc' = "remove_files_deleted"
    /\ result' = Outcome("remove", "running", <<"remove">>)
    /\ UNCHANGED <<settingsFile, op>>
    /\ UNCHANGED cfgVars
    /\ UNCHANGED cliVars

\* manager.remove(canonical_name) deleted the managed copy
RemoveFiles ==
    /\ pc = "remove_confirmed"
    /\ ~op.keep_files
    /\ disk' = disk \ {ManagedPath(op.canonical_name)}
    /\ pc' = "remove_files_deleted"
    /\ result' = Outcome("remove", "running", <<"remove">>)
    /\ UNCHANGED <<settingsFile, op>>
    /\ UNCHANGED cfgVars
    /\ UNCHANGED cliVars

\* a failed deletion that is swallowed: the command goes on to the config step
RemoveFilesFailSwallowed ==
    /\ pc = "remove_confirmed"
    /\ ~op.keep_files
    /\ pc' = "remove_files_deleted"
    /\ result' = Outcome("remove", "running", <<"remove">>)
    /\ UNCHANGED <<settingsFile, disk, op>>
    /\ UNCHANGED cfgVars
    /\ UNCHANGED cliVars

\* manager.remove(canonical_name) raises: except Exception
RemoveFilesFail ==
    /\ pc = "remove_confirmed"
    /\ ~op.keep_files
    /\ pc' = "idle"
    /\ op' = NoOp
    /\ result' = Outcome("remove", "error", <<"remove">>)
    /\ UNCHANGED <<settingsFile, disk>>
    /\ UNCHANGED cfgVars
    /\ UNCHANGED cliVars

\* filter settings.skills.plugins, then save_config(settings)
RemoveCommit ==
    /\ \/ pc = "remove_files_deleted"
       \/ pc = "remove_confirmed" /\ op.keep_files
    /\ settingsFile' = [op.settings EXCEPT
                          !.plugins = WithoutPlugin(@, op.canonical_name)]
    /\ pc' = "idle"
    /\ op' = NoOp
    /\ result' = Outcome("remove", "ok", result.calls)
    /\ UNCHANGED disk
    /\ UNCHANGED cfgVars
    /\ UNCHANGED cliVars

\* the process stops (user interrupt, crash) while a command is in flight
Interrupt ==
    /\ pc # "idle"
    /\ pc' = "idle"
    /\ op' = NoOp
    /\ result' = Outcome(op.cmd, "interrupted", result.calls)
    /\ UNCHANGED <<settingsFile, disk>>
    /\ UNCHANGED cfgVars
    /\ UNCHANGED cliVars

\* ------------------------------------------------------------------------
\* enable_skill / disable_skill
\* ------------------------------------------------------------------------
\* [normalize_skill_name(s) for s in settings.skills.disabled_bundled]
DisabledCanon(disabled_bundled) ==
    [i \in 1..Len(disabled_bundled) |-> normalize_skill_name(disabled_bundled[i])]

\* [s for s in disabled_bundled if normalize_skill_name(s) != canonical_name]
RECURSIVE WithoutDisabled(_, _)
WithoutDisabled(disabled_bundled, canonical) ==
    IF disabled_bundled = <<>> THEN <<>>
    ELSE IF normalize_skill_name(Head(disabled_bundled)) = canonical
         THEN WithoutDisabled(Tail(disabled_bundled), canonical)
         ELSE <<Head(disabled_bundled)>> \o WithoutDisabled(Tail(disabled_bundled), canonical)

\* enable_skill that empties disabled_bundled when it enables a bundled skill
EnableSkillClearsList(name) ==
    /\ pc = "idle"
    /\ LET canonical_name == normalize_skill_name(name)
           i == FindPlugin(settingsFile.plugins, canonical_name)
       IN  IF canonical_name = Invalid
           THEN /\ result' = Outcome("enable", "error", <<>>)
                /\ UNCHANGED settingsFile
           ELSE IF i # 0
           THEN IF settingsFile.plugins[i].enabled
                THEN /\ result' = Outcome("enable", "already", <<>>)
                     /\ UNCHANGED settingsFile
                ELSE /\ settingsFile' = [settingsFile EXCEPT !.plugins[i].enabled = TRUE]
                     /\ result' = Outcome("enable", "ok", <<>>)
           ELSE IF canonical_name \in SeqRange(DisabledCanon(settingsFile.disabled_bundled))
                THEN /\ settingsFile' = [settingsFile EXCEPT !.disabled_bundled = <<>>]
                     /\ result' = Outcome("enable", "ok", <<>>)
                ELSE /\ result' = Outcome("enable", "already", <<>>)
                     /\ UNCHANGED settingsFile
    /\ UNCHANGED <<disk, pc, op>>
    /\ UNCHANGED cfgVars
    /\ UNCHANGED cliVars

\* enable_skill that flips the flag of a plugin that is already enabled
EnableSkillToggle(name) ==
    /\ pc = "idle"
    /\ LET canonical_name == normalize_skill_name(name)
           i == FindPlugin(settingsFile.plugins, canonical_name)
       IN  IF canonical_name = Invalid
           THEN /\ result' = Outcome("enable", "error", <<>>)
                /\ UNCHANGED settingsFile
           ELSE IF i # 0
           THEN /\ settingsFile' = [settingsFile EXCEPT !.plugins[i].enabled = ~@]
                /\ result' = Outcome("enable", "ok", <<>>)
           ELSE IF canonical_name \in SeqRange(DisabledCanon(settingsFile.disabled_bundled))
                THEN /\ settingsFile' = [settingsFile EXCEPT !.disabled_bundled =
                                            WithoutDisabled(@, canonical_name)]
                     /\ result' = Outcome("enable", "ok", <<>>)
                ELSE /\ result' = Outcome("enable", "already", <<>>)
                     /\ UNCHANGED settingsFile
    /\ UNCHANGED <<disk, pc, op>>
    /\ UNCHANGED cfgVars
    /\ UNCHANGED cliVars

EnableSkill(name) ==
    /\ pc = "idle"
    /\ LET canonical_name == normalize_skill_name(name)
           i == FindPlugin(settingsFile.plugins, canonical_name)
       IN  IF canonical_name = Invalid
           THEN /\ result' = Outcome("enable", "error", <<>>)
                /\ UNCHANGED settingsFile
           ELSE IF i # 0
           THEN IF settingsFile.plugins[i].enabled
                THEN /\ result' = Outcome("enable", "already", <<>>)
                     /\ UNCHANGED settingsFile
                ELSE /\ settingsFile' = [settingsFile EXCEPT !.plugins[i].enabled = TRUE]
                     /\ result' = Outcome("enable", "ok", <<>>)
           ELSE IF canonical_name \in SeqRange(DisabledCanon(settingsFile.disabled_bundled))
                THEN /\ settingsFile' = [settingsFile EXCEPT !.disabled_bundled =
                                            WithoutDisabled(@, canonical_name)]
                     /\ result' = Outcome("enable", "ok", <<>>)
                ELSE /\ result' = Outcome("enable", "already", <<>>)
                     /\ UNCHANGED settingsFile
    /\ UNCHANGED <<disk, pc, op>>
    /\ UNCHANGED cfgVars
    /\ UNCHANGED cliVars

\* disable_skill that appends the name as typed to disabled_bundled
DisableSkillRawName(name) ==
    /\ pc = "idle"
    /\ LET canonical_name == normalize_skill_name(name)
           i == FindPlugin(settingsFile.plugins, canonical_name)
       IN  IF canonical_name = Invalid
           THEN /\ result' = Outcome("disable", "error", <<>>)
                /\ UNCHANGED settingsFile
           ELSE IF i # 0
           THEN IF ~settingsFile.plugins[i].enabled
                THEN /\ result' = Outcome("disable", "already", <<>>)
                     /\ UNCHANGED settingsFile
                ELSE /\ settingsFile' = [settingsFile EXCEPT !.plugins[i].enabled = FALSE]
                     /\ result' = Outcome("disable", "ok", <<>>)
           ELSE IF canonical_name \notin SeqRange(DisabledCanon(settingsFile.disabled_bundled))
                THEN /\ settingsFile' = [settingsFile EXCEPT !.disabled_bundled =
                                            Append(@, name)]
                     /\ result' = Outcome("disable", "ok", <<>>)
                ELSE /\ result' = Outcome("disable", "already", <<>>)
                     /\ UNCHANGED settingsFile
    /\ UNCHANGED <<disk, pc, op>>
    /\ UNCHANGED cfgVars
    /\ UNCHANGED cliVars

\* disable_skill without the test for a name that is already on the list
DisableSkillAlwaysAppend(name) ==
    /\ pc = "idle"
    /\ LET canonical_name == normalize_skill_name(name)
           i == FindPlugin(settingsFile.plugins, canonical_name)
       IN  IF canonical_name = Invalid
           THEN /\ result' = Outcome("disable", "error", <<>>)
                /\ UNCHANGED settingsFile
           ELSE IF i # 0
           THEN IF ~settingsFile.plugins[i].enabled
                THEN /\ result' = Outcome("disable", "already", <<>>)
                     /\ UNCHANGED settingsFile
                ELSE /\ settingsFile' = [settingsFile EXCEPT !.plugins[i].enabled = FALSE]
                     /\ result' = Outcome("disable", "ok", <<>>)
           ELSE /\ settingsFile' = [settingsFile EXCEPT !.disabled_bundled =
                                       Append(@, canonical_name)]
                /\ result' = Outcome("disable", "ok", <<>>)
    /\ UNCHANGED <<disk, pc, op>>
    /\ UNCHANGED cfgVars
    /\ UNCHANGED cliVars

DisableSkill(name) ==
    /\ pc = "idle"
    /\ LET canonical_name == normalize_skill_name(name)
           i == FindPlugin(settingsFile.plugins, canonical_name)
       IN  IF canonical_name = Invalid
           THEN /\ result' = Outcome("disable", "error", <<>>)
                /\ UNCHANGED settingsFile
           ELSE IF i # 0
           THEN IF ~settingsFile.plugins[i].enabled
                THEN /\ result' = Outcome("disable", "already", <<>>)
                     /\ UNCHANGED settingsFile
                ELSE /\ settingsFile' = [settingsFile EXCEPT !.plugins[i].enabled = FALSE]
                     /\ result' = Outcome("disable", "ok", <<>>)
           ELSE IF canonical_name \notin SeqRange(DisabledCanon(settingsFile.disabled_bundled))
                THEN /\ settingsFile' = [settingsFile EXCEPT !.disabled_bundled =
                                            Append(@, canonical_name)]
                     /\ result' = Outcome("disable", "ok", <<>>)
                ELSE /\ result' = Outcome("disable", "already", <<>>)
                     /\ UNCHANGED settingsFile
    /\ UNCHANGED <<disk, pc, op>>
    /\ UNCHANGED cfgVars
    /\ UNCHANGED cliVars

\* ------------------------------------------------------------------------
\* list_skills
\* ------------------------------------------------------------------------
\* the directory list_skills scans: only a null bundled_dir is auto-detected
ListBundledDir(settings) ==
    IF settings.bundled_dir = Null THEN AutoDir ELSE settings.bundled_dir

ListBundledSkills(settings) ==
    IF DirExists(ListBundledDir(settings))
    THEN scan_skill_directory(ListBundledDir(settings))
    ELSE <<>>

BundledRows(settings) ==
    LET bundled_skills == ListBundledSkills(settings)
        disabled == SeqRange(DisabledCanon(settings.disabled_bundled))
    IN  [i \in 1..Len(bundled_skills) |->
            [name |-> bundled_skills[i],
             enabled |-> normalize_skill_name(bundled_skills[i]) \notin disabled]]

PluginRows(settings) ==
    [i \in 1..Len(settings.plugins) |->
        [name |-> settings.plugins[i].name, enabled |-> settings.plugins[i].enabled,
         status |-> IF settings.plugins[i].enabled THEN "enabled" ELSE "disabled"]]

ListSkills ==
    /\ pc = "idle"
    /\ result' = [cmd |-> "list", status |-> "ok", calls |-> <<>>,
                  bundled |-> BundledRows(settingsFile),
                  plugins |-> PluginRows(settingsFile),
                  enabled_bundled |-> Len(ListBundledSkills(settingsFile))
                                        - Len(settingsFile.disabled_bundled),
                  enabled_plugins |-> Cardinality({i \in 1..Len(settingsFile.plugins) :
                                                      settingsFile.plugins[i].enabled})]
    /\ UNCHANGED <<settingsFile, disk, pc, op>>
    /\ UNCHANGED cfgVars
    /\ UNCHANGED cliVars

\* ------------------------------------------------------------------------
\* Specification: one command at a time
\* ------------------------------------------------------------------------
Next ==
    \/ \E git_url \in GitUrls, name \in NameOverrides, branch \in Branches :
          InstallBegin(git_url, name, branch)
    \/ InstallFetch
    \/ InstallFail
    \/ InstallCommit
    \/ \E name \in RawNames, pull_ok \in BOOLEAN : UpdateSkill(name, pull_ok)
    \/ \E name \in RawNames, keep_files \in BOOLEAN, confirm \in BOOLEAN :
          RemoveBegin(name, keep_files, confirm)
    \/ RemoveFiles
    \/ RemoveFilesFail
    \/ RemoveCommit
    \/ Interrupt
    \/ \E name \in RawNames : EnableSkill(name)
    \/ \E name \in RawNames : DisableSkill(name)
    \/ ListSkills

Spec == Init /\ [][Next]_vars

TypeOK ==
    /\ pc \in {"idle", "install_cloning", "install_fetched",
               "remove_confirmed", "remove_files_deleted"}
    /\ disk \subseteq Paths
    /\ Len(settingsFile.plugins) <= MaxPlugins

\* ------------------------------------------------------------------------
\* Configuration resolution: edits of the layers, then one resolution per run
\* ------------------------------------------------------------------------
InitConfig ==
    /\ settingsFile = [bundled_dir |-> Null, disabled_bundled |-> <<>>, plugins |-> <<>>]
    /\ disk = {}
    /\ pc = "idle"
    /\ op = NoOp
    /\ result = Outcome("none", "ok", <<>>)
    /\ cfgFile = None
    /\ env = EmptyEnv
    /\ cli = NoCli
    /\ effective = NotResolved
    /\ tmpFile = None
    /\ threads = {}
    /\ lastSession = None
    /\ session = NoSession
    /\ executions = <<>>

\* the user sets or clears a variable of the environment
SetEnv(var, value) ==
    /\ env' = [env EXCEPT ![var] = value]
    /\ effective' = NotResolved
    /\ cli' = NoCli
    /\ UNCHANGED <<cfgFile, tmpFile>>
    /\ UNCHANGED skillVars
    /\ UNCHANGED cliVars

\* load_config, set or null one field, save_config
SetFileField(field, value) ==
    /\ cfgFile' = Some(save_config([load_config(cfgFile) EXCEPT ![field] = value]))
    /\ effective' = NotResolved
    /\ cli' = NoCli
    /\ UNCHANGED <<env, tmpFile>>
    /\ UNCHANGED skillVars
    /\ UNCHANGED cliVars

\* load_config, replace providers.enabled, save_config
SetEnabledProviders(enabled) ==
    /\ cfgFile' = Some(save_config([load_config(cfgFile) EXCEPT !.enabled = enabled]))
    /\ effective' = NotResolved
    /\ cli' = NoCli
    /\ UNCHANGED <<env, tmpFile>>
    /\ UNCHANGED skillVars
    /\ UNCHANGED cliVars

\* the settings file is deleted
DeleteFile ==
    /\ cfgFile.some
    /\ cfgFile' = None
    /\ effective' = NotResolved
    /\ cli' = NoCli
    /\ UNCHANGED <<env, tmpFile>>
    /\ UNCHANGED skillVars
    /\ UNCHANGED cliVars

\* a run of the host: the effective configuration is resolved once
Resolve(overrides) ==
    /\ effective = NotResolved
    /\ cli' = overrides
    /\ effective' = resolve(overrides, cfgFile, env)
    /\ UNCHANGED <<cfgFile, env, tmpFile>>
    /\ UNCHANGED skillVars
    /\ UNCHANGED cliVars

OptionsOf(values) == {None} \cup {Some(v) : v \in values}

CliOverrides ==
    {[llm_provider |-> p, openai_model |-> m] :
        p \in OptionsOf(CliValues("llm_provider")),
        m \in OptionsOf(CliValues("openai_model"))}

NextConfig ==
    \/ \E var \in EnvVars : \E value \in OptionsOf(EnvValues(var)) : SetEnv(var, value)
    \/ \E field \in FileFields : \E value \in OptionsOf(FileValues(field)) :
          SetFileField(field, value)
    \/ \E enabled \in EnabledLists : SetEnabledProviders(enabled)
    \/ DeleteFile
    \/ \E overrides \in CliOverrides : Resolve(overrides)

SpecConfig == InitConfig /\ [][NextConfig]_vars

\* ------------------------------------------------------------------------
\* Health check: the configuration is read from the environment and validated
\* ------------------------------------------------------------------------
\* the user sets or clears a provider variable of the environment
SetProviderEnv(var, value) ==
    /\ env' = [env EXCEPT ![var] = value]
    /\ effective' = NotResolved
    /\ UNCHANGED <<cfgFile, cli, tmpFile>>
    /\ UNCHANGED skillVars
    /\ UNCHANGED cliVars

\* run_health_check: config = AgentConfig.from_env(); config.validate();
\* a ValueError is reported as a configuration error, exit code 1
run_health_check ==
    /\ effective = NotResolved
    /\ effective' = [status |-> validate(from_env(env)), config |-> from_env(env)]
    /\ UNCHANGED <<cfgFile, env, cli, tmpFile>>
    /\ UNCHANGED skillVars
    /\ UNCHANGED cliVars

NextEnv ==
    \/ \E var \in ProviderEnvVars : \E value \in OptionsOf(ProviderEnvValues(var)) :
          SetProviderEnv(var, value)
    \/ run_health_check

SpecEnv == InitConfig /\ [][NextEnv]_vars

\* ------------------------------------------------------------------------
\* ConfigStore: load-mutate-save of the settings document, with the crash
\* points of save_config (write the temporary file, then rename it)
\* ------------------------------------------------------------------------
\* the edits a command makes between load_config and save_config
StoreEdits ==
    {[field |-> "openai_api_key", value |-> Some("file-key")],
     [field |-> "openai_api_key", value |-> None],
     [field |-> "enabled", value |-> <<"openai">>],
     [field |-> "enabled", value |-> <<>>]}

\* a save that writes straight into the settings file
SaveBeginInPlace(field, value) ==
    /\ pc = "idle"
    /\ ~load_raises(cfgFile)
    /\ LET settings == [load_config(cfgFile) EXCEPT ![field] = value] IN
          /\ op' = [cmd |-> "save", settings |-> settings]
          /\ cfgFile' = Some(Truncated(save_config(settings)))
    /\ pc' = "save_writing"
    /\ result' = Outcome("save", "running", <<>>)
    /\ UNCHANGED <<settingsFile, disk, tmpFile, env, cli, effective>>
    /\ UNCHANGED cliVars

\* settings = load_config(); settings.<field> = value; save_config(settings)
\* has opened the temporary file and written a part of the document
SaveBegin(field, value) ==
    /\ pc = "idle"
    /\ ~load_raises(cfgFile)
    /\ LET settings == [load_config(cfgFile) EXCEPT ![field] = value] IN
          /\ op' = [cmd |-> "save", settings |-> settings]
          /\ tmpFile' = Some(Truncated(save_config(settings)))
    /\ pc' = "save_writing"
    /\ result' = Outcome("save", "running", <<>>)
    /\ UNCHANGED <<settingsFile, disk, cfgFile, env, cli, effective>>
    /\ UNCHANGED cliVars

\* the whole document is in the temporary file
SaveWrite ==
    /\ pc = "save_writing"
    /\ tmpFile' = Some(save_config(op.settings))
    /\ pc' = "save_written"
    /\ result' = Outcome("save", "running", <<>>)
    /\ UNCHANGED <<settingsFile, disk, op, cfgFile, env, cli, effective>>
    /\ UNCHANGED cliVars

\* the temporary file is renamed to the settings path
SaveRename ==
    /\ pc = "save_written"
    /\ cfgFile' = tmpFile
    /\ tmpFile' = None
    /\ pc' = "idle"
    /\ op' = NoOp
    /\ result' = Outcome("save", "ok", <<>>)
    /\ UNCHANGED <<settingsFile, disk, env, cli, effective>>
    /\ UNCHANGED cliVars

\* load_config(path): the settings, or ConfigurationError
LoadConfig ==
    /\ pc = "idle"
    /\ result' = [cmd |-> "load",
                  status |-> IF load_raises(cfgFile) THEN "ConfigurationError" ELSE "ok",
                  calls |-> <<>>,
                  settings |-> IF load_raises(cfgFile) THEN None
                               ELSE Some(load_config(cfgFile))]
    /\ UNCHANGED <<settingsFile, disk, pc, op>>
    /\ UNCHANGED cfgVars
    /\ UNCHANGED cliVars

\* a newer version of the program has written a field this one does not know
AddFutureField ==
    /\ pc = "idle"
    /\ cfgFile.some
    /\ ~IsMalformed(cfgFile.v)
    /\ FutureKey \notin DOMAIN cfgFile.v
    /\ cfgFile' = Some([k \in DOMAIN cfgFile.v \cup {FutureKey} |->
                           IF k = FutureKey THEN FutureValue ELSE cfgFile.v[k]])
    /\ result' = Outcome("edit", "ok", <<>>)
    /\ UNCHANGED <<settingsFile, disk, pc, op, tmpFile, env, cli, effective>>
    /\ UNCHANGED cliVars

\* the user's editor leaves a document that does not parse
CorruptFile ==
    /\ pc = "idle"
    /\ cfgFile.some
    /\ ~IsMalformed(cfgFile.v)
    /\ cfgFile' = Some(Truncated(cfgFile.v))
    /\ result' = Outcome("edit", "ok", <<>>)
    /\ UNCHANGED <<settingsFile, disk, pc, op, tmpFile, env, cli, effective>>
    /\ UNCHANGED cliVars

\* the user deletes the settings file
RemoveSettingsFile ==
    /\ pc = "idle"
    /\ cfgFile.some
    /\ cfgFile' = None
    /\ result' = Outcome("edit", "ok", <<>>)
    /\ UNCHANGED <<settingsFile, disk, pc, op, tmpFile, env, cli, effective>>
    /\ UNCHANGED cliVars

NextStore ==
    \/ \E edit \in StoreEdits : SaveBegin(edit.field, edit.value)
    \/ SaveWrite
    \/ SaveRename
    \/ Interrupt
    \/ LoadConfig
    \/ AddFutureField
    \/ CorruptFile
    \/ RemoveSettingsFile

SpecStore == InitConfig /\ [][NextStore]_vars

\* ------------------------------------------------------------------------
\* Properties of the configuration resolver
\* ------------------------------------------------------------------------
\* what each layer supplies for a field of the effective configuration
CliLayer(field) ==
    IF field \in CliFields THEN cli[field] ELSE None

FileLayer(field) ==
    IF ~cfgFile.some THEN None
    ELSE CASE field = "llm_provider" ->
                 IF cfgFile.v.enabled = <<>> THEN None ELSE Some(Head(cfgFile.v.enabled))
           [] field = "openai_api_key" -> cfgFile.v.openai_api_key
           [] field = "openai_model" -> cfgFile.v.openai_model
           [] field = "enable_otel" -> cfgFile.v.telemetry_enabled

EnvLayer(field) ==
    CASE field = "llm_provider" -> env["LLM_PROVIDER"]
      [] field = "openai_api_key" -> env["OPENAI_API_KEY"]
      [] field = "openai_model" -> env["OPENAI_MODEL"]
      [] field = "enable_otel" ->
            IF env["ENABLE_OTEL"].some THEN Some(env["ENABLE_OTEL"].v = "true") ELSE None

DefaultLayer(field) ==
    CASE field = "llm_provider" -> None
      [] field = "openai_api_key" -> None
      [] field = "openai_model" -> Some("gpt-5-mini")
      [] field = "enable_otel" -> Some(FALSE)

ResolvedFields == {"llm_provider", "openai_api_key", "openai_model", "enable_otel"}

FirstSupplied(field) ==
    IF CliLayer(field).some THEN CliLayer(field)
    ELSE IF FileLayer(field).some THEN FileLayer(field)
    ELSE IF EnvLayer(field).some THEN EnvLayer(field)
    ELSE DefaultLayer(field)

\* C1: every resolved field has the value of the highest-precedence layer
\* that supplies it, in the order CLI > settings file > environment >
\* compiled default; resolution fails only when no layer supplies a provider.
C1_Precedence ==
    /\ effective.status = "ok" =>
          \A field \in ResolvedFields : effective.config[field] = FirstSupplied(field)
    /\ effective.status = "ConfigurationError" => ~FirstSupplied("llm_provider").some

\* the spec's example: providers.openai.api_key = "file-key" in the file,
\* OPENAI_API_KEY set in the environment, resolved to the file's key
C1_Witness ==
    /\ effective.status = "ok"
    /\ cfgFile.some
    /\ cfgFile.v.enabled = <<"openai">>
    /\ cfgFile.v.openai_api_key = Some("file-key")
    /\ env["OPENAI_API_KEY"] = Some("env-key")
    /\ effective.config.openai_api_key = Some("file-key")
    /\ cli["openai_model"] = Some("cli-model")
    /\ cfgFile.v.openai_model = Some("gpt-4.1")
    /\ effective.config.openai_model = Some("cli-model")

\* C2: for a field without a CLI override, the environment value is the
\* resolved value exactly when the file leaves the field null or unset; a
\* field the file sets, even to the compiled default, resolves to the file's
\* value.
C2_EnvOnlyWhenFileNull ==
    effective.status = "ok" =>
       \A field \in ResolvedFields \ {"llm_provider"} :
          ~CliLayer(field).some =>
             /\ FileLayer(field).some => effective.config[field] = FileLayer(field)
             /\ (~FileLayer(field).some /\ EnvLayer(field).some) =>
                   effective.config[field] = EnvLayer(field)
             /\ (~FileLayer(field).some /\ ~EnvLayer(field).some) =>
                   effective.config[field] = DefaultLayer(field)

\* telemetry.enabled = false in the file, ENABLE_OTEL=true in the
\* environment, and a null api_key that falls back to the environment
C2_Witness ==
    /\ effective.status = "ok"
    /\ cfgFile.some
    /\ cfgFile.v.telemetry_enabled = Some(FALSE)
    /\ env["ENABLE_OTEL"] = Some("true")
    /\ effective.config.enable_otel = Some(FALSE)
    /\ cfgFile.v.openai_api_key = None
    /\ env["OPENAI_API_KEY"] = Some("env-key")
    /\ effective.config.openai_api_key = Some("env-key")

\* ------------------------------------------------------------------------
\* Properties of the skill commands
\* ------------------------------------------------------------------------
UniquePlugins(plugins) ==
    \A i, j \in 1..Len(plugins) :
        i # j => normalize_skill_name(plugins[i].name) # normalize_skill_name(plugins[j].name)

Recorded(plugins, canonical) == FindPlugin(plugins, canonical) # 0

\* the step in which install_skill saves the configuration
IsInstallCommit == pc = "install_fetched" /\ pc' = "idle" /\ result'.status = "ok"

\* C3: no two entries of skills.plugins have the same canonical name, in the
\* initial document and after every step of every command; an install whose
\* units are all on record already keeps the list's names, order and length.
C3_UniqueCanonicalNames ==
    /\ UniquePlugins(settingsFile.plugins)
    /\ [][/\ UniquePlugins(settingsFile'.plugins)
          /\ (IsInstallCommit /\ \A i \in 1..Len(op.entries) :
                                   Recorded(settingsFile.plugins, op.entries[i].name_canonical))
                => PluginCanon(settingsFile'.plugins) = PluginCanon(settingsFile.plugins)]_vars

\* the hand-edited entry "A" (installed from u1, disabled) was re-installed
\* from the monorepo u2: updated in place, next to the new entry
C3_Witness ==
    /\ result.cmd = "install"
    /\ result.status = "ok"
    /\ Len(settingsFile.plugins) = 2
    /\ settingsFile.plugins[1].name = NameUpperA
    /\ settingsFile.plugins[1].git_url = "u2"
    /\ settingsFile.plugins[1].enabled

\* C4: while an install is in flight the persisted document is the one it
\* started from; the document changes only in the save that follows a
\* completed fetch, which records every discovered unit, with its directory
\* on disk; a failed or interrupted install leaves the document unchanged.
C4_RecordedOnlyAfterFetch ==
    [][op.cmd = "install" =>
         /\ settingsFile = op.settings
         /\ settingsFile' # settingsFile =>
               /\ IsInstallCommit
               /\ Len(op.entries) = Len(InstallNames(op.git_url, op.name))
               /\ \A i \in 1..Len(op.entries) :
                     /\ op.entries[i].installed_path \in disk
                     /\ \E j \in 1..Len(settingsFile'.plugins) :
                           /\ normalize_skill_name(settingsFile'.plugins[j].name)
                                 = op.entries[i].name_canonical
                           /\ settingsFile'.plugins[j].installed_path
                                 = op.entries[i].installed_path
         /\ result'.status \in {"error", "interrupted"} => settingsFile' = op.settings]_vars

\* an install interrupted after its clone: a directory on disk, no record of it
C4_Witness ==
    /\ result.cmd = "install"
    /\ result.status = "interrupted"
    /\ result.calls = <<"install">>
    /\ \E p \in disk : \A i \in 1..Len(settingsFile.plugins) :
          settingsFile.plugins[i].installed_path # p

\* C5: between commands, every recorded plugin with enabled = true has an
\* installed_path that exists on disk.
C5_EnabledPluginsExist ==
    pc = "idle" =>
       \A i \in 1..Len(settingsFile.plugins) :
          settingsFile.plugins[i].enabled => settingsFile.plugins[i].installed_path \in disk

\* C6: a remove (keep_files = false) that ends without its file step having
\* succeeded reports a failure and leaves the entry in the persisted list;
\* the document changes only after the files were deleted.
C6_FailedDeletionKeepsEntry ==
    [][(op.cmd = "remove" /\ ~op.keep_files) =>
         /\ (pc = "remove_confirmed" /\ pc' = "idle") =>
               /\ result'.status \in {"error", "interrupted"}
               /\ settingsFile' = settingsFile
               /\ Recorded(settingsFile'.plugins, op.canonical_name)
         /\ settingsFile' # settingsFile =>
               /\ pc = "remove_files_deleted"
               /\ ManagedPath(op.canonical_name) \notin disk]_vars

\* a remove whose deletion failed: error reported, the plugin still on record
\* and its directory still on disk
C6_Witness ==
    /\ result.cmd = "remove"
    /\ result.status = "error"
    /\ result.calls = <<"remove">>
    /\ Len(settingsFile.plugins) = 1
    /\ settingsFile.plugins[1].installed_path \in disk

C8_KeepFilesRemovesOnlyEntry ==
    [][(op.cmd = "remove" /\ op.keep_files) =>
         /\ disk' = disk
         /\ settingsFile' # settingsFile => result'.status = "ok"
         /\ (pc' = "idle" /\ result'.status = "ok") =>
               LET plugins == settingsFile.plugins
                   k == FindPlugin(plugins, op.canonical_name)
               IN  /\ k # 0
                   /\ settingsFile'.plugins =
                         SubSeq(plugins, 1, k - 1) \o SubSeq(plugins, k + 1, Len(plugins))
                   /\ ~Recorded(settingsFile'.plugins, op.canonical_name)
                   /\ settingsFile'.disabled_bundled = settingsFile.disabled_bundled
                   /\ settingsFile'.bundled_dir = settingsFile.bundled_dir]_vars

\* a config-only remove: no manager call, another entry still on record, and
\* a directory on disk that no entry records
C8_Witness ==
    /\ result.cmd = "remove"
    /\ result.status = "ok"
    /\ result.calls = <<>>
    /\ Len(settingsFile.plugins) = 1
    /\ \E p \in disk : \A i \in 1..Len(settingsFile.plugins) :
          settingsFile.plugins[i].installed_path # p

\* C9: when the configured bundled directory is null or missing on disk, the
\* listing shows the skills of the auto-detected directory.
C9_StaleDirFallsBack ==
    (/\ result.cmd = "list"
     /\ result.status = "ok"
     /\ settingsFile.bundled_dir = Null \/ ~DirExists(settingsFile.bundled_dir))
    => [i \in 1..Len(result.bundled) |-> result.bundled[i].name]
          = scan_skill_directory(AutoDir)

\* a plugin on record whose canonical name is the one of a bundled skill
Collision(settings) ==
    \E i \in 1..Len(settings.plugins), j \in 1..Len(ListBundledSkills(settings)) :
        normalize_skill_name(settings.plugins[i].name)
           = normalize_skill_name(ListBundledSkills(settings)[j])

\* C10: an install or a listing that ends without an error never leaves or
\* shows a plugin with the canonical name of a bundled skill.
C10_NoSilentCollision ==
    (pc = "idle" /\ result.cmd \in {"install", "list"} /\ result.status = "ok")
    => ~Collision(settingsFile)

\* the pairs of distinct raw names with the same valid canonical form
EquivalentNames ==
    {pair \in RawNames \X RawNames :
        /\ pair[1] # pair[2]
        /\ normalize_skill_name(pair[1]) # Invalid
        /\ normalize_skill_name(pair[1]) = normalize_skill_name(pair[2])}

\* C11: two raw names with the same canonical form are interchangeable as the
\* argument of update, remove, enable and disable: from the same state, the
\* command run with either name selects the same entry and leaves the same
\* persisted document, disk and command state.
C11_EquivalentNamesSameEffect ==
    [][pc = "idle" =>
       \A pair \in EquivalentNames :
          /\ result'.cmd = "update" =>
                \A pull_ok \in BOOLEAN :
                   UpdateSkill(pair[1], pull_ok) => UpdateSkill(pair[2], pull_ok)
          /\ result'.cmd = "remove" =>
                \A keep_files \in BOOLEAN, confirm \in BOOLEAN :
                   RemoveBegin(pair[1], keep_files, confirm)
                      => RemoveBegin(pair[2], keep_files, confirm)
          /\ result'.cmd = "enable" => (EnableSkill(pair[1]) => EnableSkill(pair[2]))
          /\ result'.cmd = "disable" => (DisableSkill(pair[1]) => DisableSkill(pair[2]))]_vars

\* "a-b" and "A_b" name the same bundled skill: a disable with either spelling
\* has put the one canonical name on the disabled list
C11_Witness ==
    /\ <<NameAB, NameAUnderB>> \in EquivalentNames
    /\ result.cmd = "disable"
    /\ result.status = "ok"
    /\ settingsFile.disabled_bundled = <<normalize_skill_name(NameAUnderB)>>

\* the entry on record under a canonical name
EntryOf(plugins, canonical) == plugins[FindPlugin(plugins, canonical)]

\* the units of the install in flight include the canonical name
Reinstalled(canonical) ==
    \E i \in 1..Len(op.entries) : op.entries[i].name_canonical = canonical

\* C12: a recorded plugin's enabled flag changes only in an enable or disable
\* command; update changes no field of the entry other than installed_path;
\* an install of a name that is on record leaves the entry's enabled flag as
\* it was.
C12_EnabledOrthogonal ==
    [][(settingsFile' # settingsFile \/ result'.cmd = "update") =>
       \A c \in CanonNames :
          (Recorded(settingsFile.plugins, c) /\ Recorded(settingsFile'.plugins, c)) =>
             LET old == EntryOf(settingsFile.plugins, c)
                 new == EntryOf(settingsFile'.plugins, c)
             IN  /\ old.enabled # new.enabled => result'.cmd \in {"enable", "disable"}
                 /\ result'.cmd = "update" =>
                       [new EXCEPT !.installed_path = old.installed_path] = old
                 /\ IsInstallCommit => new.enabled = old.enabled]_vars

\* C12 (amended): a recorded plugin's enabled flag changes only in an enable
\* command (to true), in a disable command (to false), or in an install of
\* the same canonical name, which sets it to true; update changes no field of
\* the entry; an install leaves the entries of the other names as they were.
C12_EnabledByToggleOrReinstall ==
    [][(settingsFile' # settingsFile \/ result'.cmd = "update") =>
       \A c \in CanonNames :
          (Recorded(settingsFile.plugins, c) /\ Recorded(settingsFile'.plugins, c)) =>
             LET old == EntryOf(settingsFile.plugins, c)
                 new == EntryOf(settingsFile'.plugins, c)
             IN  /\ old.enabled # new.enabled =>
                       \/ result'.cmd = "enable" /\ new.enabled
                       \/ result'.cmd = "disable" /\ ~new.enabled
                       \/ IsInstallCommit /\ Reinstalled(c) /\ new.enabled
                 /\ result'.cmd = "update" => new = old
                 /\ (IsInstallCommit /\ Reinstalled(c)) => new.enabled
                 /\ (IsInstallCommit /\ ~Reinstalled(c)) => new = old]_vars

\* the disabled entry "A" was installed again from its own remote u1: the
\* one entry is kept, now enabled
C12_Witness ==
    /\ pc = "idle"
    /\ result.cmd = "install"
    /\ result.status = "ok"
    /\ Len(settingsFile.plugins) = 1
    /\ settingsFile.plugins[1].name = NameUpperA
    /\ settingsFile.plugins[1].git_url = "u1"
    /\ settingsFile.plugins[1].enabled

\* the canonical names of the bundled skills that exist: those of the
\* configured directory and those of the auto-detected one
ExistingBundled(settings) ==
    {normalize_skill_name(s) :
        s \in SeqRange(scan_skill_directory(AutoDir))
              \cup (IF settings.bundled_dir # Null /\ DirExists(settings.bundled_dir)
                    THEN SeqRange(scan_skill_directory(settings.bundled_dir))
                    ELSE {})}

\* C13: every name a step adds to disabled_bundled is the canonical name of a
\* bundled skill that exists; a disable of a name that is neither a recorded
\* plugin nor an existing bundled skill adds nothing.
C13_DisabledOnlyExistingBundled ==
    [][\A s \in SeqRange(settingsFile'.disabled_bundled)
                   \ SeqRange(settingsFile.disabled_bundled) :
          /\ normalize_skill_name(s) = s
          /\ s \in ExistingBundled(settingsFile')]_vars

C15_NoDefaultProvider ==
    /\ get_default_config.enabled = <<>>
    /\ (/\ effective # NotResolved
        /\ load_config(cfgFile).enabled = <<>>
        /\ ~env["LLM_PROVIDER"].some
        /\ ~cli["llm_provider"].some)
       => effective.status \in {"ConfigurationError", "ValueError"}

\* the providers validate accepts
SupportedProviders == {"openai", "anthropic", "azure_ai_foundry"}

\* the fields a provider cannot do without
MandatoryFields(provider) ==
    CASE provider = "openai" -> {"openai_api_key"}
      [] provider = "anthropic" -> {"anthropic_api_key"}
      [] provider = "azure_ai_foundry" -> {"azure_project_endpoint", "azure_model_deployment"}
      [] OTHER -> {}

\* a field without a usable value: unset, or set to the empty string
AbsentField(value) == value = None \/ value = Some("")

\* C19: the validation of a resolved configuration fails exactly when the
\* selected provider is not one of openai, anthropic, azure_ai_foundry, or a
\* mandatory field of the selected provider is absent; the fields of the other
\* providers have no influence.
C19_ValidateExactly ==
    effective # NotResolved =>
       LET config == effective.config
           provider == config.llm_provider.v
       IN  effective.status = "ValueError"
              <=> \/ provider \notin SupportedProviders
                  \/ \E field \in MandatoryFields(provider) : AbsentField(config[field])

\* anthropic selected with its key; no OpenAI key and no Azure field: valid
C19_Witness ==
    /\ effective.status = "ok"
    /\ effective.config.llm_provider = Some("anthropic")
    /\ effective.config.anthropic_api_key = Some("sk-ant")
    /\ effective.config.openai_api_key = None
    /\ effective.config.azure_project_endpoint = None
    /\ effective.config.azure_model_deployment = None

\* ------------------------------------------------------------------------
\* Properties of the settings store
\* ------------------------------------------------------------------------
\* the step in which save_config puts the new document in place
IsSaveDone == pc = "save_written" /\ pc' = "idle" /\ result'.status = "ok"

C17_SaveAtomic ==
    [][(pc' # pc /\ (op.cmd = "save" \/ op'.cmd = "save")) =>
          \/ cfgFile' = cfgFile
          \/ /\ pc = "save_written"
             /\ cfgFile' = Some(save_config(op.settings))
             /\ ~IsMalformed(cfgFile'.v)]_vars

\* the process stopped while the temporary file was half-written: the
\* settings file still holds the previous, complete document
C17_Witness ==
    /\ pc = "idle"
    /\ result.cmd = "save"
    /\ result.status = "interrupted"
    /\ tmpFile.some
    /\ IsMalformed(tmpFile.v)
    /\ cfgFile.some
    /\ ~IsMalformed(cfgFile.v)
    /\ tmpFile.v.truncated # cfgFile.v

\* C18: a load raises ConfigurationError exactly when the file exists and is
\* malformed; a load without a file succeeds and returns the defaults.
C18_MissingFileLoadsDefaults ==
    [][(pc = "idle" /\ result'.cmd = "load") =>
          /\ result'.status = "ConfigurationError"
                <=> (cfgFile.some /\ IsMalformed(cfgFile.v))
          /\ ~cfgFile.some =>
                /\ result'.status = "ok"
                /\ result'.settings = Some(get_default_config)]_vars

\* a load without a settings file: the defaults, no error
C18_Witness ==
    /\ pc = "idle"
    /\ result.cmd = "load"
    /\ result.status = "ok"
    /\ ~cfgFile.some
    /\ result.settings = Some(get_default_config)

\* ------------------------------------------------------------------------
\* Properties of the listing
\* ------------------------------------------------------------------------
\* C20: in a listing, every recorded plugin whose installed directory is
\* missing has a row, and the row's status is neither "enabled" nor
\* "disabled", the statuses of a working plugin.
C20_MissingDirectoryReportedBroken ==
    (pc = "idle" /\ result.cmd = "list" /\ result.status = "ok") =>
       \A i \in 1..Len(settingsFile.plugins) :
          settingsFile.plugins[i].installed_path \notin disk =>
             /\ i \in DOMAIN result.plugins
             /\ result.plugins[i].name = settingsFile.plugins[i].name
             /\ result.plugins[i].status \notin {"enabled", "disabled"}

\* C21: in a listing, a bundled skill is reported enabled exactly when its
\* canonical name is not in disabled_bundled, a plugin exactly when its
\* recorded flag is true, and the summary's count of enabled bundled skills
\* is the number of bundled rows reported enabled, whatever other names
\* disabled_bundled holds.
C21_ListingEnabledCounts ==
    (pc = "idle" /\ result.cmd = "list" /\ result.status = "ok") =>
       /\ \A i \in DOMAIN result.bundled :
             result.bundled[i].enabled
                <=> \A j \in 1..Len(settingsFile.disabled_bundled) :
                       normalize_skill_name(settingsFile.disabled_bundled[j])
                          # normalize_skill_name(result.bundled[i].name)
       /\ \A i \in DOMAIN result.plugins :
             result.plugins[i].enabled <=> settingsFile.plugins[i].enabled
       /\ result.enabled_bundled
             = Cardinality({i \in DOMAIN result.bundled : result.bundled[i].enabled})

\* a list of pairwise distinct canonical names
CanonicalDistinct(names) ==
    /\ \A i \in 1..Len(names) : normalize_skill_name(names[i]) = names[i]
    /\ \A i, j \in 1..Len(names) : i # j => names[i] # names[j]

\* C22: every entry a step adds to disabled_bundled is a canonical name whose
\* canonical form was not on the list; a list of pairwise distinct canonical
\* names stays one in every step.
C22_DisabledCanonicalDistinct ==
    /\ CanonicalDistinct(settingsFile.disabled_bundled)
    /\ [][/\ \A s \in SeqRange(settingsFile'.disabled_bundled)
                        \ SeqRange(settingsFile.disabled_bundled) :
                /\ normalize_skill_name(s) = s
                /\ s \notin SeqRange(DisabledCanon(settingsFile.disabled_bundled))
          /\ Len(settingsFile'.disabled_bundled) <= Len(settingsFile.disabled_bundled) + 1
          /\ CanonicalDistinct(settingsFile.disabled_bundled)
                => CanonicalDistinct(settingsFile'.disabled_bundled)]_vars

\* "a-b" was disabled, and a second disable under the spelling "A_b" found it
\* on the list: one entry
C22_Witness ==
    /\ result.cmd = "disable"
    /\ result.status = "already"
    /\ settingsFile.plugins = <<>>
    /\ settingsFile.disabled_bundled = <<NameAB>>

\* the elements of a sequence that are in a set, in the sequence's order
Restrict(seq, set) ==
    LET Keep(x) == x \in set IN SelectSeq(seq, Keep)

\* C23: a listing shows the bundled skills in scan order and the plugins in
\* the order of the persisted list.  In every step the plugins that remain
\* keep their relative order and the new ones follow them; only the commit of
\* a remove drops an entry, and only the one it names.
C23_StableOrder ==
    /\ (pc = "idle" /\ result.cmd = "list" /\ result.status = "ok") =>
          /\ [i \in DOMAIN result.bundled |-> result.bundled[i].name]
                = ListBundledSkills(settingsFile)
          /\ [i \in DOMAIN result.plugins |-> result.plugins[i].name]
                = [i \in 1..Len(settingsFile.plugins) |-> settingsFile.plugins[i].name]
    /\ [][settingsFile'.plugins # settingsFile.plugins =>
             LET old == PluginCanon(settingsFile.plugins)
                 new == PluginCanon(settingsFile'.plugins)
                 kept == Restrict(old, SeqRange(new))
             IN  /\ Len(kept) <= Len(new)
                 /\ SubSeq(new, 1, Len(kept)) = kept
                 /\ \A i \in (Len(kept) + 1)..Len(new) : new[i] \notin SeqRange(old)
                 /\ kept # old =>
                       /\ result'.cmd = "remove"
                       /\ SeqRange(old) \ SeqRange(new) = {op.canonical_name}]_vars

\* the monorepo u2 was installed over the entry "a": "a" is re-installed in
\* its place, the new "a-b" follows it
C23_Witness ==
    /\ pc = "idle"
    /\ result.cmd = "install"
    /\ result.status = "ok"
    /\ Len(settingsFile.plugins) = 2
    /\ settingsFile.plugins[1].name = NameA
    /\ settingsFile.plugins[2].name = NameAB
    /\ settingsFile.plugins[2].git_url = "u2"

\* a skill name counts as enabled in a document: the flag of the plugin of
\* that name, else the absence of the name from disabled_bundled
IsEnabledIn(settings, name) ==
    LET c == normalize_skill_name(name)
        i == FindPlugin(settings.plugins, c)
    IN  IF i # 0 THEN settings.plugins[i].enabled
        ELSE c \notin SeqRange(DisabledCanon(settings.disabled_bundled))

\* the document a disable of the name leaves
DisabledDoc(settings, name) ==
    LET c == normalize_skill_name(name)
        i == FindPlugin(settings.plugins, c)
    IN  IF ~IsEnabledIn(settings, name) THEN settings
        ELSE IF i # 0 THEN [settings EXCEPT !.plugins[i].enabled = FALSE]
        ELSE [settings EXCEPT !.disabled_bundled = Append(@, c)]

\* the document an enable of the name leaves
EnabledDoc(settings, name) ==
    LET c == normalize_skill_name(name)
        i == FindPlugin(settings.plugins, c)
        Other(s) == normalize_skill_name(s) # c
    IN  IF IsEnabledIn(settings, name) THEN settings
        ELSE IF i # 0 THEN [settings EXCEPT !.plugins[i].enabled = TRUE]
        ELSE [settings EXCEPT !.disabled_bundled = SelectSeq(@, Other)]

ValidNames == {name \in RawNames : normalize_skill_name(name) # Invalid}

\* C26: every enable and disable step leaves the document EnabledDoc and
\* DisabledDoc describe, and reports "already", with the document untouched,
\* exactly when the skill is in the requested state; on every document the
\* commands reach, both are idempotent, and for a skill that is enabled a
\* disable followed by an enable gives the document back, with every other
\* plugin entry and every other entry of disabled_bundled as it was.
C26_EnableDisableInverse ==
    /\ \A name \in ValidNames :
          /\ DisabledDoc(DisabledDoc(settingsFile, name), name) = DisabledDoc(settingsFile, name)
          /\ EnabledDoc(EnabledDoc(settingsFile, name), name) = EnabledDoc(settingsFile, name)
          /\ IsEnabledIn(settingsFile, name) =>
                EnabledDoc(DisabledDoc(settingsFile, name), name) = settingsFile
    /\ [][pc = "idle" =>
          \A name \in ValidNames :
             /\ (result'.cmd = "enable" /\ EnableSkill(name)) =>
                   /\ settingsFile' = EnabledDoc(settingsFile, name)
                   /\ result'.status = "already" <=> IsEnabledIn(settingsFile, name)
                   /\ result'.status = "already" => settingsFile' = settingsFile
             /\ (result'.cmd = "disable" /\ DisableSkill(name)) =>
                   /\ settingsFile' = DisabledDoc(settingsFile, name)
                   /\ result'.status = "already" <=> ~IsEnabledIn(settingsFile, name)
                   /\ result'.status = "already" => settingsFile' = settingsFile
             /\ (result'.cmd \in {"enable", "disable"}
                   /\ (EnableSkill(name) \/ DisableSkill(name))) =>
                   /\ \A j \in 1..Len(settingsFile.plugins) :
                         j # FindPlugin(settingsFile.plugins, normalize_skill_name(name))
                            => settingsFile'.plugins[j] = settingsFile.plugins[j]
                   /\ Len(settingsFile'.plugins) = Len(settingsFile.plugins)
                   /\ LET others == {s \in SeqRange(settingsFile.disabled_bundled) :
                                        normalize_skill_name(s) # normalize_skill_name(name)}
                      IN  Restrict(settingsFile'.disabled_bundled, others)
                             = Restrict(settingsFile.disabled_bundled, others)]_vars

\* "a" and "a-b" were on the disabled list, in this order, and "a-b" was
\* enabled again: the list is the one from before "a-b" was disabled
C26_Witness ==
    /\ result.cmd = "enable"
    /\ result.status = "ok"
    /\ settingsFile.plugins = <<>>
    /\ settingsFile.disabled_bundled = <<NameA>>
    /\ IsEnabledIn(settingsFile, NameAUnderB)
    /\ DisabledDoc(settingsFile, NameAUnderB).disabled_bundled = <<NameA, NameAB>>

\* C28: a remove that was declined, and a remove of a name that is no
\* recorded plugin, end at once with the settings document and the managed
\* directory as they were; the step that looks the plugin up and asks never
\* deletes or writes, and a deletion or a write inside remove happens only
\* after the confirmation was given.
C28_DeclinedRemoveChangesNothing ==
    [][/\ (pc = "idle" /\ result'.cmd = "remove") =>
             /\ settingsFile' = settingsFile
             /\ disk' = disk
             /\ \A name \in RawNames : \A keep_files \in BOOLEAN :
                   LET found == FindPlugin(settingsFile.plugins, normalize_skill_name(name)) # 0 IN
                   /\ RemoveBegin(name, keep_files, FALSE) =>
                         /\ pc' = "idle"
                         /\ result'.status \in {"cancelled", "not_found", "error"}
                         /\ found /\ normalize_skill_name(name) # Invalid
                               => result'.status = "cancelled"
                   /\ (~found /\ \E confirm \in BOOLEAN : RemoveBegin(name, keep_files, confirm)) =>
                         /\ pc' = "idle"
                         /\ result'.status \in {"not_found", "error"}
       /\ (result'.cmd = "remove" /\ (settingsFile' # settingsFile \/ disk' # disk)) =>
             /\ pc \in {"remove_confirmed", "remove_files_deleted"}
             /\ FindPlugin(op.settings.plugins, op.canonical_name) # 0]_vars

\* the removal of a recorded plugin whose files exist was declined
C28_Witness ==
    /\ pc = "idle"
    /\ result.cmd = "remove"
    /\ result.status = "cancelled"
    /\ Len(settingsFile.plugins) = 2
    /\ \A i \in 1..2 : settingsFile.plugins[i].installed_path \in disk

\* a path of exactly one safe, non-empty segment below the managed root
NestedUnderManagedRoot(path) ==
    /\ Len(path) = 2
    /\ path[1] = ManagedRoot
    /\ path[2] # <<>>
    /\ \A k \in 1..Len(path[2]) : IsSafeChar(path[2][k])

C24_WitnessTraversal ==
    /\ pc = "install_fetched"
    /\ op.name = Some(NameTraversal)
    /\ op.entries[1].installed_path = ManagedPath(NameA)

\* ------------------------------------------------------------------------
\* NameCanonicalizer exercised on its own: every raw name over a small
\* alphabet, canonicalized, and the canonical name canonicalized again
\* ------------------------------------------------------------------------
Alphabet == {"a", "B", " ", "_", "-", "!", "/", "."}

\* "My Cool_Skill!!" and "my-cool-skill", two letters per word
ExampleRaw == <<"B", "a", " ", "A", "b", "_", "a", "a", "!", "!">>
ExampleCanonical == <<"b", "a", "-", "a", "b", "-", "a", "a">>

RawStrings ==
    UNION {[1..n -> Alphabet] : n \in 0..MaxRawLen} \cup {ExampleRaw, ExampleCanonical}

NotCanonicalized == [cmd |-> "canonicalize", status |-> "none", value |-> <<>>]

InitNames ==
    /\ settingsFile = [bundled_dir |-> Null, disabled_bundled |-> <<>>, plugins |-> <<>>]
    /\ disk = {}
    /\ pc = "idle"
    /\ op \in {[cmd |-> "canonicalize", raw |-> raw] : raw \in RawStrings}
    /\ result = NotCanonicalized
    /\ cfgFile = None
    /\ env = EmptyEnv
    /\ cli = NoCli
    /\ effective = NotResolved
    /\ tmpFile = None
    /\ threads = {}
    /\ lastSession = None
    /\ session = NoSession
    /\ executions = <<>>

\* canonicalize(raw): the canonical name, or InvalidSkillName
CanonicalizeName ==
    /\ result.status = "none"
    /\ result' = [cmd |-> "canonicalize",
                  status |-> IF Canonicalize(op.raw) = Invalid
                             THEN "InvalidSkillName" ELSE "ok",
                  value |-> Canonicalize(op.raw)]
    /\ UNCHANGED <<settingsFile, disk, pc, op>>
    /\ UNCHANGED cfgVars
    /\ UNCHANGED cliVars

\* the canonical name is used as the next raw name (a stored name that a
\* later command canonicalizes again)
CanonicalizeStored ==
    /\ result.status = "ok"
    /\ op.raw # result.value
    /\ op' = [cmd |-> "canonicalize", raw |-> result.value]
    /\ result' = NotCanonicalized
    /\ UNCHANGED <<settingsFile, disk, pc>>
    /\ UNCHANGED cfgVars
    /\ UNCHANGED cliVars

NextNames ==
    \/ CanonicalizeName
    \/ CanonicalizeStored

SpecNames == InitNames /\ [][NextNames]_vars

\* the name with every letter lowercased, every whitespace, underscore and
\* hyphen written as a hyphen, and every unsafe character left out: two raw
\* names differ only in case, separators and unsafe characters exactly
\* when this gives the same for both
FoldName(raw) ==
    LET Generic(c) == IF IsSeparator(c) THEN "-" ELSE Lower(c)
    IN  StripUnsafe([i \in 1..Len(raw) |-> Generic(raw[i])])

HasSeparatorRun(s) == \E i \in 1..Len(s) - 1 : s[i] = "-" /\ s[i + 1] = "-"

\* non-empty, no path separator, no ".." segment
SafeToken(s) ==
    /\ s # <<>>
    /\ \A i \in 1..Len(s) : s[i] \notin {"/", "\\"}
    /\ ~\E i \in 1..Len(s) - 1 : s[i] = "." /\ s[i + 1] = "."

CanonicalizeIdempotent ==
    \A raw \in RawStrings : Canonicalize(Canonicalize(raw)) = Canonicalize(raw)

\* C27: the canonicalizer is idempotent; a unit that install records anew is
\* stored under its canonical name, which is its own canonical form; every
\* stored entry is found by the lookup of its canonical name; and while an
\* entry is on record, update, remove, enable and disable given any raw name
\* of that canonical form act on the plugin (none reports it missing, none
\* takes it for a bundled skill) and a re-install of it adds no entry.
C27_StoredNameFoundAgain ==
    /\ CanonicalizeIdempotent
    /\ \A i \in 1..Len(settingsFile.plugins) :
          LET c == normalize_skill_name(settingsFile.plugins[i].name) IN
          /\ c # Invalid
          /\ normalize_skill_name(c) = c
          /\ FindPlugin(settingsFile.plugins, c) = i
    /\ [][/\ IsInstallCommit =>
                \A k \in 1..Len(op.entries) :
                   LET c == op.entries[k].name_canonical
                       i == FindPlugin(settingsFile'.plugins, c)
                   IN  /\ i # 0
                       /\ Recorded(settingsFile.plugins, c) =>
                             /\ i = FindPlugin(settingsFile.plugins, c)
                             /\ Len(settingsFile'.plugins) <= Len(settingsFile.plugins)
                                                                + Len(op.entries) - 1
                       /\ ~Recorded(settingsFile.plugins, c) =>
                             /\ settingsFile'.plugins[i].name = c
                             /\ normalize_skill_name(settingsFile'.plugins[i].name) = c
          /\ (pc = "idle" /\ result'.cmd \in {"update", "remove", "enable", "disable"}) =>
                \A name \in ValidNames :
                   Recorded(settingsFile.plugins, normalize_skill_name(name)) =>
                      /\ (\E pull_ok \in BOOLEAN : UpdateSkill(name, pull_ok))
                            => result'.status # "not_found"
                      /\ (\E keep_files, confirm \in BOOLEAN : RemoveBegin(name, keep_files, confirm))
                            => result'.status \in {"running", "cancelled"}
                      /\ (EnableSkill(name) \/ DisableSkill(name))
                            => /\ result'.status \in {"ok", "already"}
                               /\ settingsFile'.disabled_bundled = settingsFile.disabled_bundled]_vars

\* the unit "A_b" was installed, stored as "a-b", and an update found it
C27_Witness ==
    /\ result.cmd = "update"
    /\ result.status = "ok"
    /\ \E i \in 1..Len(settingsFile.plugins) :
          /\ settingsFile.plugins[i].name = NameAB
          /\ settingsFile.plugins[i].name = Canonicalize(NameAUnderB)
          /\ settingsFile.plugins[i].git_url = "u2"

\* ------------------------------------------------------------------------
\* Session auto-save (agent.cli.session)
\* ------------------------------------------------------------------------
\* message counts of a session that ends
MessageCounts == 0..2

\* the marker file right after open(last_session_file, "w"): empty
EmptyContent == 0

\* get_last_session(): the stripped content of the marker file, None
\* without the file
get_last_session == IF lastSession.some THEN Some(lastSession.v) ELSE None

\* auto_save_session is called at the end of a session; the session name
\* is the timestamp.  "if message_count > 0" guards the whole body.
AutoSaveBegin(message_count) ==
    /\ session.pc = "idle"
    /\ session.now < MaxSessions
    /\ session' = [pc |-> IF message_count > 0 THEN "saving" ELSE "idle",
                   now |-> session.now + 1,
                   message_count |-> message_count,
                   session_name |-> IF message_count > 0 THEN session.now + 1 ELSE 0,
                   outcome |-> IF message_count > 0 THEN "none" ELSE "returned"]
    /\ UNCHANGED <<threads, lastSession, executions>>
    /\ UNCHANGED skillVars
    /\ UNCHANGED cfgVars

\* await persistence.save_thread(thread, session_name, ...) returned
SaveThread ==
    /\ session.pc = "saving"
    /\ threads' = threads \cup {session.session_name}
    /\ session' = [session EXCEPT !.pc = "saved"]
    /\ UNCHANGED <<lastSession, executions>>
    /\ UNCHANGED skillVars
    /\ UNCHANGED cfgVars

\* a failed save that writes the marker all the same
SaveThreadFailMarks ==
    /\ session.pc = "saving"
    /\ lastSession' = Some(session.session_name)
    /\ session' = [session EXCEPT !.pc = "idle", !.outcome = "returned"]
    /\ UNCHANGED <<threads, executions>>
    /\ UNCHANGED skillVars
    /\ UNCHANGED cfgVars

\* save_thread raised: "except Exception" reports the failure and the
\* function returns
SaveThreadFail ==
    /\ session.pc = "saving"
    /\ session' = [session EXCEPT !.pc = "idle", !.outcome = "returned"]
    /\ UNCHANGED <<threads, lastSession, executions>>
    /\ UNCHANGED skillVars
    /\ UNCHANGED cfgVars

\* _save_last_session: mkdir, then open(..., "w") truncates the marker
MarkerOpen ==
    /\ session.pc = "saved"
    /\ lastSession' = Some(EmptyContent)
    /\ session' = [session EXCEPT !.pc = "marker_open"]
    /\ UNCHANGED <<threads, executions>>
    /\ UNCHANGED skillVars
    /\ UNCHANGED cfgVars

\* _save_last_session: mkdir or open raised; the warning is logged and
\* auto_save_session goes on to its end
MarkerOpenFail ==
    /\ session.pc = "saved"
    /\ session' = [session EXCEPT !.pc = "idle", !.outcome = "returned"]
    /\ UNCHANGED <<threads, lastSession, executions>>
    /\ UNCHANGED skillVars
    /\ UNCHANGED cfgVars

\* f.write(session_name)
MarkerWrite ==
    /\ session.pc = "marker_open"
    /\ lastSession' = Some(session.session_name)
    /\ session' = [session EXCEPT !.pc = "idle", !.outcome = "returned"]
    /\ UNCHANGED <<threads, executions>>
    /\ UNCHANGED skillVars
    /\ UNCHANGED cfgVars

\* f.write raised after the truncation; the warning is logged
MarkerWriteFail ==
    /\ session.pc = "marker_open"
    /\ session' = [session EXCEPT !.pc = "idle", !.outcome = "returned"]
    /\ UNCHANGED <<threads, lastSession, executions>>
    /\ UNCHANGED skillVars
    /\ UNCHANGED cfgVars

NextSession ==
    \/ \E message_count \in MessageCounts : AutoSaveBegin(message_count)
    \/ SaveThread
    \/ SaveThreadFail
    \/ MarkerOpen
    \/ MarkerOpenFail
    \/ MarkerWrite
    \/ MarkerWriteFail

SpecSession == InitConfig /\ [][NextSession]_vars

DisplayModes == {"MINIMAL", "VERBOSE"}

\* the call of execute_with_visualization in flight, if any, is the last
InFlight ==
    /\ executions # <<>>
    /\ executions[Len(executions)].pc # "done"

\* the last call, changed
WithLast(new) == [executions EXCEPT ![Len(executions)] = new]

\* execution_display = ExecutionTreeDisplay(...); await execution_display.start()
ExecuteBegin(display_mode) ==
    /\ ~InFlight
    /\ Len(executions) < MaxExecutions
    /\ executions' = Append(executions,
                            [display_mode |-> display_mode, display |-> "started",
                             pc |-> "running", outcome |-> "none"])
    /\ UNCHANGED <<threads, lastSession, session>>
    /\ UNCHANGED skillVars
    /\ UNCHANGED cfgVars

\* response = await agent.run(prompt, thread=thread)
AgentResponds ==
    /\ InFlight
    /\ executions[Len(executions)].pc = "running"
    /\ executions' = WithLast([executions[Len(executions)] EXCEPT !.pc = "responded"])
    /\ UNCHANGED <<threads, lastSession, session>>
    /\ UNCHANGED skillVars
    /\ UNCHANGED cfgVars

\* await execution_display.stop(); return response
StopAndReturn ==
    /\ InFlight
    /\ executions[Len(executions)].pc = "responded"
    /\ executions' = WithLast([executions[Len(executions)] EXCEPT
                                 !.display = "stopped", !.pc = "done",
                                 !.outcome = "returned"])
    /\ UNCHANGED <<threads, lastSession, session>>
    /\ UNCHANGED skillVars
    /\ UNCHANGED cfgVars

\* agent.run raised KeyboardInterrupt: the except clause is entered
AgentInterrupted ==
    /\ InFlight
    /\ executions[Len(executions)].pc = "running"
    /\ executions' = WithLast([executions[Len(executions)] EXCEPT !.pc = "interrupted"])
    /\ UNCHANGED <<threads, lastSession, session>>
    /\ UNCHANGED skillVars
    /\ UNCHANGED cfgVars

\* await execution_display.stop(); raise
StopAndReraise ==
    /\ InFlight
    /\ executions[Len(executions)].pc = "interrupted"
    /\ executions' = WithLast([executions[Len(executions)] EXCEPT
                                 !.display = "stopped", !.pc = "done",
                                 !.outcome = "KeyboardInterrupt"])
    /\ UNCHANGED <<threads, lastSession, session>>
    /\ UNCHANGED skillVars
    /\ UNCHANGED cfgVars

\* agent.run raised another exception: no except clause matches and the
\* exception leaves the function
AgentRaises ==
    /\ InFlight
    /\ executions[Len(executions)].pc = "running"
    /\ executions' = WithLast([executions[Len(executions)] EXCEPT
                                 !.pc = "done", !.outcome = "raised"])
    /\ UNCHANGED <<threads, lastSession, session>>
    /\ UNCHANGED skillVars
    /\ UNCHANGED cfgVars

NextDisplay ==
    \/ \E display_mode \in DisplayModes : ExecuteBegin(display_mode)
    \/ AgentResponds
    \/ StopAndReturn
    \/ AgentInterrupted
    \/ StopAndReraise
    \/ AgentRaises

SpecDisplay == InitConfig /\ [][NextDisplay]_vars

\* C30: every call of execute_with_visualization that has ended, by a
\* return, a user interrupt or another exception of agent.run, has stopped
\* the display it started.
C30_DisplayStoppedOnEveryExit ==
    \A i \in 1..Len(executions) :
       executions[i].pc = "done" => executions[i].display = "stopped"

====
